---- MODULE Spec2Model ----
(***************************************************************************)
(* Model of pkg/reconciler/events/cloudevent/cloudevent.go:                *)
(*   getEventData, getEventType, eventForObjectWithCondition and           *)
(*   SendCloudEventWithRetries (caller + background goroutine), together   *)
(*   with the environment the goroutine talks to: the cloud events client  *)
(*   (Send with retries), the execution context (cancellation) and the     *)
(*   event recorder.                                                       *)
(***************************************************************************)
EXTENDS Bags, FiniteSets, Integers, Sequences, TLC

\* Number of call slots of SendCloudEventWithRetries the model carries.
NumCalls == 2

Calls == 1..NumCalls

\* cloudevents.ContextWithRetriesExponentialBackoff(ctx, 10*time.Millisecond, 10)
maxAttempts == 10

----------------------------------------------------------------------------
\* Values

StatusRunning == "Running"
StatusFinished == "Finished"
StatusError == "Error"

TaskRunStartedEventV1 == "cd.taskrun.started.v1"
TaskRunFinishedEventV1 == "cd.taskrun.finished.v1"
PipelineRunQueuedEventV1 == "cd.pipelinerun.queued.v1"
PipelineRunStartedEventV1 == "cd.pipelinerun.started.v1"
PipelineRunFinishedEventV1 == "cd.pipelinerun.finished.v1"

\* v1beta1.TaskRunReasonStarted / PipelineRunReasonStarted and
\* v1beta1.TaskRunReasonRunning / PipelineRunReasonRunning
ReasonStarted == "Started"
ReasonRunning == "Running"

\* Reason codes a condition may carry: the two recognized ones, a reason of
\* a finished run, and one that differs from a recognized one only by case.
Reasons == {ReasonStarted, ReasonRunning, "Succeeded", "started"}

\* corev1.ConditionStatus of the Succeeded condition; "" is a status that is
\* none of Unknown / True / False; "None" stands for GetCondition() = nil.
CondUnknown == "Unknown"
CondTrue == "True"
CondFalse == "False"
CondStatuses == {CondUnknown, CondTrue, CondFalse, ""}
NoCondition == "None"

\* Kinds of runtime.Object handed to SendCloudEventWithRetries.  TaskRun and
\* PipelineRun are the kinds the type switches know; Run satisfies
\* objectWithCondition but is in no type switch; ConfigMap does not satisfy
\* objectWithCondition.
SupportedKinds == {"TaskRun", "PipelineRun"}
ConditionKinds == SupportedKinds \cup {"Run"}
Kinds == ConditionKinds \cup {"ConfigMap"}

SelfLinks == {"", "/apis/tekton.dev/v1beta1/namespaces/ns/link"}

\* The objects a caller may pass.  marshalFails: json.Marshal of the object
\* returns an error; createFails: the cdeevents.Create*Event constructor
\* returns an error.  Fields the code never reads for a kind are fixed.
Objects ==
    { [kind |-> k, cond |-> s, reason |-> r, marshalFails |-> m,
       createFails |-> f, selfLink |-> l, name |-> "run1", namespace |-> "ns"] :
        k \in SupportedKinds, s \in CondStatuses, r \in Reasons,
        m \in BOOLEAN, f \in BOOLEAN, l \in SelfLinks }
    \cup
    { [kind |-> k, cond |-> NoCondition, reason |-> "", marshalFails |-> m,
       createFails |-> FALSE, selfLink |-> l, name |-> "run1", namespace |-> "ns"] :
        k \in SupportedKinds, m \in BOOLEAN, l \in SelfLinks }
    \cup
    { [kind |-> "Run", cond |-> s, reason |-> r, marshalFails |-> FALSE,
       createFails |-> FALSE, selfLink |-> l, name |-> "run1", namespace |-> "ns"] :
        s \in CondStatuses, r \in Reasons, l \in SelfLinks }
    \cup
    { [kind |-> "Run", cond |-> NoCondition, reason |-> "", marshalFails |-> FALSE,
       createFails |-> FALSE, selfLink |-> l, name |-> "run1", namespace |-> "ns"] :
        l \in SelfLinks }
    \cup
    { [kind |-> "ConfigMap", cond |-> NoCondition, reason |-> "", marshalFails |-> FALSE,
       createFails |-> FALSE, selfLink |-> "", name |-> "run1", namespace |-> "ns"] }

NoObject ==
    [kind |-> "", cond |-> NoCondition, reason |-> "", marshalFails |-> FALSE,
     createFails |-> FALSE, selfLink |-> "", name |-> "", namespace |-> ""]

\* Error values returned synchronously; "nil" is the nil error.
Nil == "nil"
ErrUnsupportedObjectType == "UnsupportedObjectType"
ErrNoTransportConfigured == "NoTransportConfigured"
ErrSerialization == "SerializationError"
ErrMissingCondition == "MissingCondition"
ErrUnrecognizedReason == "UnrecognizedReason"
ErrUnknownConditionState == "UnknownConditionState"
ErrCreateEvent == "CreateEventError"

SyncErrors ==
    {ErrUnsupportedObjectType, ErrNoTransportConfigured, ErrSerialization,
     ErrMissingCondition, ErrUnrecognizedReason, ErrUnknownConditionState,
     ErrCreateEvent}

----------------------------------------------------------------------------
\* Pure functions

\* object.(objectWithCondition)
IsObjectWithCondition(o) == o.kind \in ConditionKinds

\* json.Marshal(v): the serialization of the whole object
Marshal(o) == <<"json", o.kind, o.name, o.namespace, o.cond, o.reason, o.selfLink>>

NoData == [err |-> Nil, data |-> {}]

\* getEventData with the PipelineRun stored under the TaskRun's key
getEventDataOneKey(o) ==
    CASE o.kind \in SupportedKinds ->
            IF o.marshalFails
            THEN [err |-> ErrSerialization, data |-> {}]
            ELSE [err |-> Nil, data |-> {<<"taskrun", Marshal(o)>>}]
      [] OTHER -> [err |-> Nil, data |-> {}]

\* getEventData with an error for a kind outside the type switch
getEventDataStrict(o) ==
    CASE o.kind \in SupportedKinds ->
            IF o.marshalFails
            THEN [err |-> ErrSerialization, data |-> {}]
            ELSE [err |-> Nil,
                  data |-> {<<IF o.kind = "TaskRun" THEN "taskrun" ELSE "pipelinerun",
                              Marshal(o)>>}]
      [] OTHER -> [err |-> ErrSerialization, data |-> {}]

\* getEventData: the bundle is a set of <<key, value>> pairs
getEventData(o) ==
    CASE o.kind = "TaskRun" ->
            IF o.marshalFails
            THEN [err |-> ErrSerialization, data |-> {}]
            ELSE [err |-> Nil, data |-> {<<"taskrun", Marshal(o)>>}]
      [] o.kind = "PipelineRun" ->
            IF o.marshalFails
            THEN [err |-> ErrSerialization, data |-> {}]
            ELSE [err |-> Nil, data |-> {<<"pipelinerun", Marshal(o)>>}]
      [] OTHER -> [err |-> Nil, data |-> {}]

NoEventType == [err |-> Nil, Type |-> "", Status |-> ""]

EventTypeError(e) == [err |-> e, Type |-> "", Status |-> ""]

\* getEventTypeUnknown with the composite kind reporting "started" for the
\* reason Started, as the leaf kind does
getEventTypeUnknownSameForBoth(o) ==
    CASE o.kind \in SupportedKinds ->
            CASE o.reason \in {ReasonStarted, ReasonRunning} ->
                    [err |-> Nil,
                     Type |-> IF o.kind = "TaskRun" THEN TaskRunStartedEventV1
                              ELSE PipelineRunStartedEventV1,
                     Status |-> StatusRunning]
              [] OTHER -> EventTypeError(ErrUnrecognizedReason)
      [] OTHER -> [err |-> Nil, Type |-> "", Status |-> StatusRunning]

\* getEventType, case c.IsUnknown()
getEventTypeUnknown(o) ==
    CASE o.kind = "TaskRun" ->
            CASE o.reason = ReasonStarted ->
                    [err |-> Nil, Type |-> TaskRunStartedEventV1, Status |-> StatusRunning]
              [] o.reason = ReasonRunning ->
                    [err |-> Nil, Type |-> TaskRunStartedEventV1, Status |-> StatusRunning]
              [] OTHER -> EventTypeError(ErrUnrecognizedReason)
      [] o.kind = "PipelineRun" ->
            CASE o.reason = ReasonStarted ->
                    [err |-> Nil, Type |-> PipelineRunQueuedEventV1, Status |-> StatusRunning]
              [] o.reason = ReasonRunning ->
                    [err |-> Nil, Type |-> PipelineRunStartedEventV1, Status |-> StatusRunning]
              [] OTHER -> EventTypeError(ErrUnrecognizedReason)
      [] OTHER -> [err |-> Nil, Type |-> "", Status |-> StatusRunning]

\* getEventType, cases c.IsTrue() and c.IsFalse(): the type of a finished run
FinishedType(o) ==
    CASE o.kind = "TaskRun" -> TaskRunFinishedEventV1
      [] o.kind = "PipelineRun" -> PipelineRunFinishedEventV1
      [] OTHER -> ""

\* getEventType with a failed run reported under a type of its own
getEventTypeFailedType(o) ==
    IF o.cond = NoCondition
    THEN EventTypeError(ErrMissingCondition)
    ELSE CASE o.cond = CondUnknown -> getEventTypeUnknown(o)
           [] o.cond = CondTrue ->
                [err |-> Nil, Type |-> FinishedType(o), Status |-> StatusFinished]
           [] o.cond = CondFalse ->
                [err |-> Nil,
                 Type |-> CASE o.kind = "TaskRun" -> "cd.taskrun.failed.v1"
                            [] o.kind = "PipelineRun" -> "cd.pipelinerun.failed.v1"
                            [] OTHER -> "",
                 Status |-> StatusError]
           [] OTHER -> EventTypeError(ErrUnknownConditionState)

\* getEventType without the nil check: a missing condition counts as unknown
getEventTypeNoNilCheck(o) ==
    CASE o.cond \in {CondUnknown, NoCondition} -> getEventTypeUnknown(o)
      [] o.cond = CondTrue ->
            [err |-> Nil, Type |-> FinishedType(o), Status |-> StatusFinished]
      [] o.cond = CondFalse ->
            [err |-> Nil, Type |-> FinishedType(o), Status |-> StatusError]
      [] OTHER -> EventTypeError(ErrUnknownConditionState)

\* getEventType
getEventType(o) ==
    IF o.cond = NoCondition
    THEN EventTypeError(ErrMissingCondition)
    ELSE CASE o.cond = CondUnknown -> getEventTypeUnknown(o)
           [] o.cond = CondTrue ->
                [err |-> Nil, Type |-> FinishedType(o), Status |-> StatusFinished]
           [] o.cond = CondFalse ->
                [err |-> Nil, Type |-> FinishedType(o), Status |-> StatusError]
           [] OTHER -> EventTypeError(ErrUnknownConditionState)

\* runObject.GetObjectKind().GroupVersionKind()
GroupVersionKind(o) ==
    [Group |-> "tekton.dev",
     Version |-> IF o.kind = "Run" THEN "v1alpha1" ELSE "v1beta1",
     Kind |-> o.kind]

\* EventSource without the fallback for an empty self link
EventSourceSelfLinkOnly(o) == o.selfLink

\* source of the event: the self link, or the formatted template
EventSource(o) ==
    IF o.selfLink # ""
    THEN o.selfLink
    ELSE "/apis/" \o GroupVersionKind(o).Group \o "/" \o GroupVersionKind(o).Version
         \o "/namespaces/" \o o.namespace \o "/" \o GroupVersionKind(o).Kind
         \o "/" \o o.name

NoEvent ==
    [set |-> FALSE, type |-> "", status |-> "", id |-> "", name |-> "",
     subject |-> "", source |-> "", data |-> {}]

\* cdeevents.CreateTaskRunEvent(etype.Type, uid, name, "", data)
CreateTaskRunEvent(type, name, data) ==
    [set |-> TRUE, type |-> type, status |-> "", id |-> name, name |-> name,
     subject |-> "", source |-> "", data |-> data]

\* cdeevents.CreatePipelineRunEvent(etype.Type, uid, name, status, "", "", data)
CreatePipelineRunEvent(type, name, status, data) ==
    [set |-> TRUE, type |-> type, status |-> status, id |-> name, name |-> name,
     subject |-> "", source |-> "", data |-> data]

\* the event of eventForObjectWithCondition before subject and source are set
CreatedEvent(o, etype, data) ==
    CASE o.kind = "TaskRun" -> CreateTaskRunEvent(etype.Type, o.name, data)
      [] o.kind = "PipelineRun" ->
            CreatePipelineRunEvent(etype.Type, o.name, etype.Status, data)
      [] OTHER -> [NoEvent EXCEPT !.set = TRUE]

\* eventForObjectWithCondition: [err, event, data, etype]
eventForObjectWithCondition(o) ==
    LET d == getEventData(o)
        t == getEventType(o)
    IN  IF d.err # Nil
        THEN [err |-> d.err, event |-> NoEvent, data |-> d, etype |-> NoEventType]
        ELSE IF t.err # Nil
        THEN [err |-> t.err, event |-> NoEvent, data |-> d, etype |-> t]
        ELSE IF o.kind \in SupportedKinds /\ o.createFails
        THEN [err |-> ErrCreateEvent, event |-> NoEvent, data |-> d, etype |-> t]
        ELSE [err |-> Nil,
              event |-> [CreatedEvent(o, t, d.data) EXCEPT
                            !.subject = o.name, !.source = EventSource(o)],
              data |-> d, etype |-> t]

----------------------------------------------------------------------------
\* State

VARIABLES
    object,      \* object[c]: the runtime.Object passed to call c
    hasClient,   \* hasClient[c]: cloudevent.Get(ctx) # nil
    hasRecorder, \* hasRecorder[c]: controller.GetEventRecorder(ctx) # nil
    cancelled,   \* cancelled[c]: ctx of call c is cancelled
    callerPc,    \* "idle", "waiting" (in <-wasIn), "received", "returned"
    retval,      \* the error value the call returns ("none" before it has one)
    data,        \* result of getEventData in call c
    etype,       \* result of getEventType in call c
    event,       \* the event built by call c
    taskPc,      \* goroutine: "none", "handoff" (in wasIn <- nil), "send",
                 \*            "check" (Send returned), "done"
    attempts,    \* send attempts the client made inside Send
    lastOutcome, \* outcome of the latest attempt: "none", "ACK", "Retry", "Permanent"
    sent,        \* the event handed to ceClient.Send
    result,      \* the result Send returned
    sink,        \* bag of the events recorded with recorder.Event
    warnings     \* warnings[c]: number of logger.Warnf calls of the goroutine

vars ==
    <<object, hasClient, hasRecorder, cancelled, callerPc, retval, data, etype,
      event, taskPc, attempts, lastOutcome, sent, result, sink, warnings>>

NoResult == [set |-> FALSE, ack |-> FALSE, attempt |-> 0, error |-> ""]

Init ==
    /\ object = [c \in Calls |-> NoObject]
    /\ hasClient = [c \in Calls |-> FALSE]
    /\ hasRecorder = [c \in Calls |-> FALSE]
    /\ cancelled = [c \in Calls |-> FALSE]
    /\ callerPc = [c \in Calls |-> "idle"]
    /\ retval = [c \in Calls |-> "none"]
    /\ data = [c \in Calls |-> NoData]
    /\ etype = [c \in Calls |-> NoEventType]
    /\ event = [c \in Calls |-> NoEvent]
    /\ taskPc = [c \in Calls |-> "none"]
    /\ attempts = [c \in Calls |-> 0]
    /\ lastOutcome = [c \in Calls |-> "none"]
    /\ sent = [c \in Calls |-> NoEvent]
    /\ result = [c \in Calls |-> NoResult]
    /\ sink = EmptyBag
    /\ warnings = [c \in Calls |-> 0]

----------------------------------------------------------------------------
\* SendCloudEventWithRetries: the caller

\* SyncError with the event built before the client is looked up
SyncErrorBuildFirst(o, cl) ==
    IF ~IsObjectWithCondition(o) THEN ErrUnsupportedObjectType
    ELSE IF eventForObjectWithCondition(o).err # Nil
    THEN eventForObjectWithCondition(o).err
    ELSE IF ~cl THEN ErrNoTransportConfigured
    ELSE Nil

\* The error of the synchronous part: type guard, client lookup, event
\* construction; Nil when the goroutine is to be started.
SyncError(o, cl) ==
    IF ~IsObjectWithCondition(o) THEN ErrUnsupportedObjectType
    ELSE IF ~cl THEN ErrNoTransportConfigured
    ELSE eventForObjectWithCondition(o).err

\* Whether the call gets as far as eventForObjectWithCondition
BuildsEvent(o, cl) == IsObjectWithCondition(o) /\ cl

\* StartsTask with the goroutine started before the event is built
StartsTaskBeforeBuild(o, cl) == IsObjectWithCondition(o) /\ cl

\* The goroutine is started only when every synchronous step succeeded
StartsTask(o, cl) == SyncError(o, cl) = Nil

\* One call of SendCloudEventWithRetries(ctx, object) up to `return <-wasIn`:
\* either it returns an error, or it has started the goroutine and waits on
\* the channel.  cl, rec: the client and the recorder the context carries.
Deliver(c, o, cl, rec) ==
    /\ callerPc[c] = "idle"
    /\ object' = [object EXCEPT ![c] = o]
    /\ hasClient' = [hasClient EXCEPT ![c] = cl]
    /\ hasRecorder' = [hasRecorder EXCEPT ![c] = rec]
    /\ LET built == eventForObjectWithCondition(o)
           err == SyncError(o, cl)
       IN  /\ data' = [data EXCEPT ![c] = IF BuildsEvent(o, cl) THEN built.data ELSE NoData]
           /\ etype' = [etype EXCEPT ![c] =
                            IF BuildsEvent(o, cl) THEN built.etype ELSE NoEventType]
           /\ event' = [event EXCEPT ![c] =
                            IF BuildsEvent(o, cl) THEN built.event ELSE NoEvent]
           /\ IF err # Nil
              THEN /\ retval' = [retval EXCEPT ![c] = err]
                   /\ callerPc' = [callerPc EXCEPT ![c] = "returned"]
              ELSE /\ callerPc' = [callerPc EXCEPT ![c] = "waiting"]
                   /\ UNCHANGED retval
           /\ taskPc' = [taskPc EXCEPT ![c] = IF StartsTask(o, cl) THEN "handoff" ELSE "none"]
    /\ UNCHANGED <<cancelled, attempts, lastOutcome, sent, result, sink, warnings>>

\* HandoffValue with the goroutine reporting a failure on the channel
HandoffValueFailure(c) == ErrNoTransportConfigured

\* wasIn <- nil: the value the goroutine puts on the channel
HandoffValue(c) == Nil

\* Handoff with the goroutine going on to Send without releasing the caller
HandoffWithoutRelease(c) ==
    /\ callerPc[c] = "waiting"
    /\ taskPc[c] = "handoff"
    /\ taskPc' = [taskPc EXCEPT ![c] = "send"]
    /\ sent' = [sent EXCEPT ![c] = event[c]]
    /\ UNCHANGED <<object, hasClient, hasRecorder, cancelled, callerPc, retval, data,
                   etype, event, attempts, lastOutcome, result, sink, warnings>>

\* Handoff with a zero-value event handed to Send
HandoffZeroEvent(c) ==
    /\ callerPc[c] = "waiting"
    /\ taskPc[c] = "handoff"
    /\ retval' = [retval EXCEPT ![c] = HandoffValue(c)]
    /\ callerPc' = [callerPc EXCEPT ![c] = "received"]
    /\ taskPc' = [taskPc EXCEPT ![c] = "send"]
    /\ sent' = [sent EXCEPT ![c] = [NoEvent EXCEPT !.set = TRUE]]
    /\ UNCHANGED <<object, hasClient, hasRecorder, cancelled, data, etype, event,
                   attempts, lastOutcome, result, sink, warnings>>

\* The rendezvous on the unbuffered channel wasIn: the goroutine's send and
\* the caller's receive complete together; both are runnable afterwards.
Handoff(c) ==
    /\ callerPc[c] = "waiting"
    /\ taskPc[c] = "handoff"
    /\ retval' = [retval EXCEPT ![c] = HandoffValue(c)]
    /\ callerPc' = [callerPc EXCEPT ![c] = "received"]
    /\ taskPc' = [taskPc EXCEPT ![c] = "send"]
    /\ sent' = [sent EXCEPT ![c] = event[c]]
    /\ UNCHANGED <<object, hasClient, hasRecorder, cancelled, data, etype, event,
                   attempts, lastOutcome, result, sink, warnings>>

\* return <-wasIn: the caller hands the received value to its caller
CallerReturn(c) ==
    /\ callerPc[c] = "received"
    /\ callerPc' = [callerPc EXCEPT ![c] = "returned"]
    /\ UNCHANGED <<object, hasClient, hasRecorder, cancelled, retval, data, etype,
                   event, taskPc, attempts, lastOutcome, sent, result, sink, warnings>>

----------------------------------------------------------------------------
\* The environment of the goroutine: context and cloud events client

\* The context of call c is cancelled while its goroutine is alive and has
\* not left Send.
Cancel(c) ==
    /\ taskPc[c] \in {"handoff", "send"}
    /\ ~cancelled[c]
    /\ cancelled' = [cancelled EXCEPT ![c] = TRUE]
    /\ UNCHANGED <<object, hasClient, hasRecorder, callerPc, retval, data, etype,
                   event, taskPc, attempts, lastOutcome, sent, result, sink, warnings>>

\* SendCtxDone with Send called on a context detached from the call's ctx
SendCtxDoneDetached(c) == FALSE

\* The context Send is called with is derived from the call's ctx, so Send
\* sees the call's cancellation.
SendCtxDone(c) == cancelled[c]

\* SendMaxAttempts with a policy one attempt larger
SendMaxAttemptsPlusOne(c) == maxAttempts + 1

\* The retry policy the goroutine asks for: the maximum number of attempts
SendMaxAttempts(c) == maxAttempts

Outcomes == {"ACK", "Retry", "Permanent"}

\* One attempt of the client inside Send: acknowledged, rejected retryably,
\* or rejected for good.  A further attempt follows only a retryable
\* rejection, within the retry policy, and while the context is live.
TransportAttempt(c, out) ==
    /\ taskPc[c] = "send"
    /\ ~SendCtxDone(c)
    /\ lastOutcome[c] \in {"none", "Retry"}
    /\ attempts[c] < SendMaxAttempts(c)
    /\ attempts' = [attempts EXCEPT ![c] = @ + 1]
    /\ lastOutcome' = [lastOutcome EXCEPT ![c] = out]
    /\ UNCHANGED <<object, hasClient, hasRecorder, cancelled, callerPc, retval, data,
                   etype, event, taskPc, sent, result, sink, warnings>>

\* Send has nothing more to try
SendFinished(c) ==
    \/ lastOutcome[c] \in {"ACK", "Permanent"}
    \/ lastOutcome[c] = "Retry" /\ attempts[c] >= SendMaxAttempts(c)
    \/ SendCtxDone(c)

\* The result Send returns: the outcome of the last attempt made
SendResult(c) ==
    [set |-> TRUE,
     ack |-> lastOutcome[c] = "ACK",
     attempt |-> attempts[c],
     error |-> CASE lastOutcome[c] = "ACK" -> ""
                 [] lastOutcome[c] = "none" -> "context canceled"
                 [] OTHER -> lastOutcome[c]]

\* ceClient.Send returns to the goroutine
TransportReturn(c) ==
    /\ taskPc[c] = "send"
    /\ SendFinished(c)
    /\ result' = [result EXCEPT ![c] = SendResult(c)]
    /\ taskPc' = [taskPc EXCEPT ![c] = "check"]
    /\ UNCHANGED <<object, hasClient, hasRecorder, cancelled, callerPc, retval, data,
                   etype, event, attempts, lastOutcome, sent, sink, warnings>>

----------------------------------------------------------------------------
\* SendCloudEventWithRetries: the goroutine after Send

\* IsACK with the test inverted
IsACKInverted(r) == ~r.ack

\* cloudevents.IsACK(result)
IsACK(r) == r.ack

\* FailureRecord with the object kept in a place all calls share: the record
\* refers to the object of the call started last
FailureRecordSharedObject(c) ==
    [object |-> CHOOSE d \in Calls :
                    /\ taskPc[d] # "none"
                    /\ \A e \in Calls : taskPc[e] # "none" => e <= d,
     eventtype |-> "Warning", reason |-> "Cloud Event Failure",
     message |-> [attempt |-> result[c].attempt, error |-> result[c].error]]

\* recorder.Event(object, corev1.EventTypeWarning, "Cloud Event Failure", result.Error())
FailureRecord(c) ==
    [object |-> c, eventtype |-> "Warning", reason |-> "Cloud Event Failure",
     message |-> [attempt |-> result[c].attempt, error |-> result[c].error]]

\* RecordsAfterSend with the failure recorded twice
RecordsAfterSendTwice(c) ==
    IF IsACK(result[c]) THEN EmptyBag
    ELSE IF ~hasRecorder[c] THEN EmptyBag
    ELSE SetToBag({FailureRecord(c)}) (+) SetToBag({FailureRecord(c)})

\* RecordsAfterSend without the check for a missing recorder
RecordsAfterSendNoNilCheck(c) ==
    IF IsACK(result[c]) THEN EmptyBag
    ELSE SetToBag({FailureRecord(c)})

\* The records the goroutine of call c emits once Send has returned
RecordsAfterSend(c) ==
    IF IsACK(result[c]) THEN EmptyBag
    ELSE IF ~hasRecorder[c] THEN EmptyBag
    ELSE SetToBag({FailureRecord(c)})

\* The warnings the goroutine of call c logs once Send has returned
WarningsAfterSend(c) ==
    IF IsACK(result[c]) THEN 0
    ELSE IF ~hasRecorder[c] THEN 2
    ELSE 1

\* PcAfterSend with the goroutine calling Send again after a failure
PcAfterSendRetry(c) == IF IsACK(result[c]) THEN "done" ELSE "send"

\* Where the goroutine goes after handling the result of Send: it ends
PcAfterSend(c) == "done"

\* if result := ceClient.Send(...); !cloudevents.IsACK(result) { ... }
TaskAfterSend(c) ==
    /\ taskPc[c] = "check"
    /\ sink' = sink (+) RecordsAfterSend(c)
    /\ warnings' = [warnings EXCEPT ![c] = @ + WarningsAfterSend(c)]
    /\ taskPc' = [taskPc EXCEPT ![c] = PcAfterSend(c)]
    /\ UNCHANGED <<object, hasClient, hasRecorder, cancelled, callerPc, retval, data,
                   etype, event, attempts, lastOutcome, sent, result>>

----------------------------------------------------------------------------
\* Specification: one emission, with any object and any context

NoCallStarted == \A d \in Calls : callerPc[d] = "idle"

Emit ==
    /\ NoCallStarted
    /\ \E c \in Calls, o \in Objects, cl \in BOOLEAN, rec \in BOOLEAN :
        Deliver(c, o, cl, rec)

Next ==
    \/ Emit
    \/ \E c \in Calls : Handoff(c)
    \/ \E c \in Calls : CallerReturn(c)
    \/ \E c \in Calls : Cancel(c)
    \/ \E c \in Calls, out \in Outcomes : TransportAttempt(c, out)
    \/ \E c \in Calls : TransportReturn(c)
    \/ \E c \in Calls : TaskAfterSend(c)

Spec == Init /\ [][Next]_vars

\* Specification: concurrent emissions.  The first two call slots may be in
\* flight together, each with a client and a recorder in its context, its own
\* cancellation, and one of two objects of different kinds.
ConcurrentCalls == {c \in Calls : c <= 2}

ConcurrentObjects ==
    { [kind |-> "TaskRun", cond |-> CondTrue, reason |-> "Succeeded",
       marshalFails |-> FALSE, createFails |-> FALSE, selfLink |-> "",
       name |-> "run1", namespace |-> "ns"],
      [kind |-> "PipelineRun", cond |-> CondFalse, reason |-> "Succeeded",
       marshalFails |-> FALSE, createFails |-> FALSE,
       selfLink |-> "/apis/tekton.dev/v1beta1/namespaces/ns/link",
       name |-> "run1", namespace |-> "ns"] }

EmitConcurrent ==
    \E c \in ConcurrentCalls, o \in ConcurrentObjects : Deliver(c, o, TRUE, TRUE)

NextConcurrent ==
    \/ EmitConcurrent
    \/ \E c \in Calls : Handoff(c)
    \/ \E c \in Calls : CallerReturn(c)
    \/ \E c \in Calls : Cancel(c)
    \/ \E c \in Calls, out \in Outcomes : TransportAttempt(c, out)
    \/ \E c \in Calls : TransportReturn(c)
    \/ \E c \in Calls : TaskAfterSend(c)

SpecConcurrent == Init /\ [][NextConcurrent]_vars

\* Specification: one emission under a fair scheduler.  A runnable goroutine
\* eventually runs: the rendezvous on wasIn, the caller's return and the
\* goroutine's code after Send are taken when they stay enabled.  Nothing is
\* assumed about the client: Send may never return.
FairSpec ==
    /\ Spec
    /\ \A c \in Calls :
        /\ WF_vars(Handoff(c))
        /\ WF_vars(CallerReturn(c))
        /\ WF_vars(TaskAfterSend(c))

TypeOK ==
    /\ \A c \in Calls :
        /\ object[c] \in Objects \cup {NoObject}
        /\ callerPc[c] \in {"idle", "waiting", "received", "returned"}
        /\ taskPc[c] \in {"none", "handoff", "send", "check", "done"}
        /\ retval[c] \in {"none", Nil} \cup SyncErrors
        /\ attempts[c] \in 0..maxAttempts
        /\ lastOutcome[c] \in Outcomes \cup {"none"}

----------------------------------------------------------------------------
\* Views of the state used by the properties

\* The state of the delivery of call c in Created -> Dispatched ->
\* {Acknowledged, Failed}
DeliveryState(c) ==
    CASE taskPc[c] = "none" -> "NotCreated"
      [] taskPc[c] = "handoff" -> "Created"
      [] taskPc[c] = "send" -> "Dispatched"
      [] OTHER -> IF IsACK(result[c]) THEN "Acknowledged" ELSE "Failed"

RECURSIVE SumCopies(_, _)
SumCopies(S, B) ==
    IF S = {} THEN 0
    ELSE LET r == CHOOSE x \in S : TRUE
         IN  CopiesIn(r, B) + SumCopies(S \ {r}, B)

\* The records of the sink that refer to the object of call c
RecordsOf(c) == {r \in BagToSet(sink) : r.object = c}

\* How many records the sink holds for the object of call c
RecordCount(c) == SumCopies(RecordsOf(c), sink)

\* The call went through getEventData and reached getEventType
Classified(c) ==
    /\ callerPc[c] # "idle"
    /\ BuildsEvent(object[c], hasClient[c])
    /\ data[c].err = Nil

\* The client rejected every attempt retryably, up to the last one allowed
Exhausted(c) == lastOutcome[c] = "Retry" /\ attempts[c] = maxAttempts

\* The context was cancelled after a retryable rejection, before the next
\* attempt
CancelledMidRetry(c) ==
    cancelled[c] /\ lastOutcome[c] = "Retry" /\ attempts[c] < maxAttempts

----------------------------------------------------------------------------
\* Properties

\* C1 (as stated): in every interleaving the call has returned to its caller
\* by the time the client's Send has completed.
C1_ReturnPrecedesSendCompletion ==
    \A c \in Calls : taskPc[c] \in {"check", "done"} => callerPc[c] = "returned"

\* C1 (amended): the call waits for the handoff only, never for Send: Send
\* begins only once the caller has been released by the handoff, and a
\* released caller can return whatever Send is doing (not begun, between
\* attempts, never completing, or completed).
C1_ReturnWaitsOnlyForHandoff ==
    \A c \in Calls :
        /\ taskPc[c] \in {"send", "check", "done"} =>
                callerPc[c] \in {"received", "returned"}
        /\ callerPc[c] = "waiting" => taskPc[c] = "handoff" /\ attempts[c] = 0
        /\ callerPc[c] = "received" => ENABLED CallerReturn(c)

\* C1 witness: the call has returned while Send is still between attempts.
C1_ReturnedDuringSend ==
    \E c \in Calls :
        /\ callerPc[c] = "returned" /\ retval[c] = Nil
        /\ taskPc[c] = "send" /\ lastOutcome[c] = "Retry"

\* C2: when the client rejects every attempt retryably up to maxAttempts,
\* the delivery is Failed, the goroutine emits exactly one record to the
\* recorder, the record refers to the object passed to the call, and after
\* the record no further attempt is made.
C2_ExhaustedFailsWithOneRecord ==
    /\ [](\A c \in Calls :
            (Exhausted(c) /\ taskPc[c] \in {"check", "done"}) =>
                /\ DeliveryState(c) = "Failed"
                /\ taskPc[c] = "check" => RecordCount(c) = 0
                /\ (taskPc[c] = "done" /\ hasRecorder[c]) =>
                        /\ RecordCount(c) = 1
                        /\ BagToSet(sink) = {FailureRecord(c)}
                        /\ FailureRecord(c).object = c
                        /\ FailureRecord(c).message.attempt = maxAttempts)
    /\ [][\A c \in Calls :
            taskPc[c] = "done" =>
                /\ taskPc'[c] = "done"
                /\ attempts'[c] = attempts[c]
                /\ RecordCount(c)' = RecordCount(c)]_vars

\* C2 witness: every attempt was rejected, the goroutine has ended and the
\* recorder holds the record.
C2_ExhaustedAndRecorded ==
    \E c \in Calls :
        /\ Exhausted(c) /\ taskPc[c] = "done" /\ hasRecorder[c]
        /\ RecordCount(c) = 1

\* C3: when the client acknowledges the Nth attempt after N-1 retryable
\* rejections, 1 <= N <= maxAttempts, the delivery is Acknowledged and no
\* record is ever emitted for it.
C3_AcknowledgedWithoutRecord ==
    /\ [](\A c \in Calls :
            lastOutcome[c] = "ACK" =>
                /\ attempts[c] \in 1..maxAttempts
                /\ RecordCount(c) = 0
                /\ warnings[c] = 0
                /\ taskPc[c] \in {"check", "done"} => DeliveryState(c) = "Acknowledged")
    /\ [][\A c \in Calls : lastOutcome[c] = "ACK" => lastOutcome'[c] = "ACK"]_vars

\* C3 witness: the last allowed attempt was acknowledged, a recorder is
\* present and the goroutine has ended.
C3_AcknowledgedAtLastAttempt ==
    \E c \in Calls :
        /\ lastOutcome[c] = "ACK" /\ attempts[c] = maxAttempts
        /\ hasRecorder[c] /\ taskPc[c] = "done"

C5_LaunchedCallReturnsNil ==
    \A c \in Calls :
        taskPc[c] # "none" =>
            /\ retval[c] \in {"none", Nil}
            /\ callerPc[c] \in {"received", "returned"} => retval[c] = Nil

\* C5 witness: the call returned and the delivery failed on every attempt.
C5_ReturnedNilAndFailed ==
    \E c \in Calls :
        /\ callerPc[c] = "returned" /\ taskPc[c] = "done"
        /\ Exhausted(c) /\ ~IsACK(result[c])

\* C6: a call that returns an error has started no goroutine, made no send
\* attempt, emitted no record and logged no warning.
C6_ErrorMeansNothingStarted ==
    \A c \in Calls :
        (callerPc[c] = "returned" /\ retval[c] # Nil) =>
            /\ retval[c] \in SyncErrors
            /\ taskPc[c] = "none"
            /\ attempts[c] = 0
            /\ sent[c] = NoEvent
            /\ ~result[c].set
            /\ RecordCount(c) = 0
            /\ warnings[c] = 0

\* C6 witness: a call with a client and a recorder returned a classification
\* error.
C6_ReturnedClassificationError ==
    \E c \in Calls :
        /\ callerPc[c] = "returned" /\ retval[c] = ErrUnrecognizedReason
        /\ hasClient[c] /\ hasRecorder[c]

\* C7: under an unknown condition a TaskRun with reason Started or Running
\* is classified (TaskRunStarted, Running), a PipelineRun with reason Started
\* (PipelineRunQueued, Running) and with reason Running (PipelineRunStarted,
\* Running); any other reason fails with UnrecognizedReason.
C7_UnknownConditionTable ==
    \A c \in Calls :
        (Classified(c) /\ object[c].kind \in SupportedKinds
                       /\ object[c].cond = CondUnknown) =>
            LET k == object[c].kind
                r == object[c].reason
            IN  /\ (k = "TaskRun" /\ r \in {"Started", "Running"}) =>
                        etype[c] = [err |-> Nil, Type |-> "cd.taskrun.started.v1",
                                    Status |-> "Running"]
                /\ (k = "PipelineRun" /\ r = "Started") =>
                        etype[c] = [err |-> Nil, Type |-> "cd.pipelinerun.queued.v1",
                                    Status |-> "Running"]
                /\ (k = "PipelineRun" /\ r = "Running") =>
                        etype[c] = [err |-> Nil, Type |-> "cd.pipelinerun.started.v1",
                                    Status |-> "Running"]
                /\ r \notin {"Started", "Running"} =>
                        /\ etype[c].err = ErrUnrecognizedReason
                        /\ retval[c] = ErrUnrecognizedReason

\* C7 witness: a PipelineRun with an unknown condition and reason Started was
\* classified.
C7_CompositeStartedClassified ==
    \E c \in Calls :
        /\ Classified(c) /\ object[c].kind = "PipelineRun"
        /\ object[c].cond = CondUnknown /\ object[c].reason = "Started"
        /\ etype[c].Status = "Running"

\* C8: a true condition is classified Finished and a false one Error, for
\* every reason; for one kind both carry the same event type.
C8_FinishedAndErrorShareType ==
    \A c \in Calls :
        (Classified(c) /\ object[c].cond \in {CondTrue, CondFalse}) =>
            /\ etype[c].err = Nil
            /\ object[c].cond = CondTrue => etype[c].Status = "Finished"
            /\ object[c].cond = CondFalse => etype[c].Status = "Error"
            /\ object[c].kind = "TaskRun" => etype[c].Type = "cd.taskrun.finished.v1"
            /\ object[c].kind = "PipelineRun" =>
                    etype[c].Type = "cd.pipelinerun.finished.v1"
            /\ etype[c].Type = getEventType([object[c] EXCEPT !.cond = CondTrue]).Type
            /\ etype[c].Type = getEventType([object[c] EXCEPT !.cond = CondFalse]).Type

\* C8 witness: a failed TaskRun was classified.
C8_FailedLeafClassified ==
    \E c \in Calls :
        /\ Classified(c) /\ object[c].kind = "TaskRun"
        /\ object[c].cond = CondFalse /\ etype[c].Status = "Error"

\* C9: every event built for a TaskRun or a PipelineRun carries the status
\* the classifier derived.
C9_EnvelopeCarriesStatus ==
    \A c \in Calls :
        (event[c].set /\ object[c].kind \in SupportedKinds) =>
            event[c].status = etype[c].Status

\* C10: an object without a Succeeded condition is classified
\* MissingCondition whatever its kind, and no event is built for it.
C10_MissingConditionNoEnvelope ==
    \A c \in Calls :
        (callerPc[c] # "idle" /\ IsObjectWithCondition(object[c])
                              /\ object[c].cond = NoCondition) =>
            /\ ~event[c].set
            /\ sent[c] = NoEvent
            /\ taskPc[c] = "none"
            /\ callerPc[c] = "returned"
            /\ retval[c] \in SyncErrors
            /\ Classified(c) =>
                    /\ etype[c] = [err |-> "MissingCondition", Type |-> "", Status |-> ""]
                    /\ retval[c] = ErrMissingCondition

\* C10 witness: a Run (a kind outside the type switches) without a condition
\* was classified.
C10_MissingConditionOtherKind ==
    \E c \in Calls :
        /\ Classified(c) /\ object[c].kind = "Run"
        /\ object[c].cond = NoCondition /\ retval[c] = ErrMissingCondition

\* C11: the source of every event built is non-empty: it is the object's
\* self link when that is non-empty and otherwise the template
\* /apis/<group>/<version>/namespaces/<namespace>/<kind>/<name> filled from
\* the object.
C11_SourceNeverEmpty ==
    \A c \in Calls :
        event[c].set =>
            /\ event[c].source # ""
            /\ sent[c].set => sent[c].source = event[c].source
            /\ object[c].selfLink # "" => event[c].source = object[c].selfLink
            /\ object[c].selfLink = "" =>
                    /\ object[c].kind = "TaskRun" =>
                            event[c].source =
                                "/apis/tekton.dev/v1beta1/namespaces/ns/TaskRun/run1"
                    /\ object[c].kind = "PipelineRun" =>
                            event[c].source =
                                "/apis/tekton.dev/v1beta1/namespaces/ns/PipelineRun/run1"
                    /\ object[c].kind = "Run" =>
                            event[c].source =
                                "/apis/tekton.dev/v1alpha1/namespaces/ns/Run/run1"

\* C11 witness: an event was built for a PipelineRun without a self link.
C11_BuiltWithoutSelfLink ==
    \E c \in Calls :
        /\ event[c].set /\ object[c].kind = "PipelineRun"
        /\ object[c].selfLink = "" /\ taskPc[c] = "send"

\* C12: for a TaskRun or a PipelineRun getEventData returns either a bundle
\* with exactly one key, named after the kind and holding the serialization
\* of the whole object, or a serialization error; on the error there is no
\* bundle, no event is built, no goroutine is started and nothing is sent.
C12_OneKeyOrSerializationError ==
    \A c \in Calls :
        (callerPc[c] # "idle" /\ BuildsEvent(object[c], hasClient[c])
                              /\ object[c].kind \in SupportedKinds) =>
            IF object[c].marshalFails
            THEN /\ data[c] = [err |-> "SerializationError", data |-> {}]
                 /\ retval[c] = ErrSerialization
                 /\ callerPc[c] = "returned"
                 /\ ~event[c].set
                 /\ taskPc[c] = "none"
                 /\ attempts[c] = 0
                 /\ ~sent[c].set
            ELSE /\ data[c].err = Nil
                 /\ Cardinality(data[c].data) = 1
                 /\ \A kv \in data[c].data :
                        /\ kv[1] = (IF object[c].kind = "TaskRun" THEN "taskrun"
                                    ELSE "pipelinerun")
                        /\ kv[2] = <<"json", object[c].kind, object[c].name,
                                     object[c].namespace, object[c].cond,
                                     object[c].reason, object[c].selfLink>>
                 /\ event[c].set => event[c].data = data[c].data

\* C12 witness: the serialization of a PipelineRun failed and the call
\* returned the error.
C12_SerializationFailed ==
    \E c \in Calls :
        /\ object[c].kind = "PipelineRun" /\ object[c].marshalFails
        /\ hasClient[c] /\ retval[c] = ErrSerialization

\* The steps of the delivery state machine
DeliverySteps ==
    {<<"NotCreated", "Created">>, <<"Created", "Dispatched">>,
     <<"Dispatched", "Acknowledged">>, <<"Dispatched", "Failed">>}

\* C13: a delivery goes Created -> Dispatched -> {Acknowledged, Failed}:
\* it changes state only along these steps, Acknowledged and Failed are
\* never left, no attempt is made in either, an Acknowledged delivery never
\* gets a record and a Failed one gets at most one.
C13_DeliveryStateMachine ==
    /\ [][\A c \in Calls :
            /\ DeliveryState(c)' # DeliveryState(c) =>
                    <<DeliveryState(c), DeliveryState(c)'>> \in DeliverySteps
            /\ DeliveryState(c) \in {"Acknowledged", "Failed"} =>
                    /\ attempts'[c] = attempts[c]
                    /\ sent'[c] = sent[c]
                    /\ result'[c] = result[c]
            /\ DeliveryState(c) = "Acknowledged" => RecordCount(c)' = 0
            /\ (DeliveryState(c) = "Failed" /\ taskPc[c] = "done") =>
                    RecordCount(c)' = RecordCount(c)]_vars
    /\ [](\A c \in Calls :
            /\ DeliveryState(c) \in {"NotCreated", "Created"} =>
                    attempts[c] = 0 /\ RecordCount(c) = 0
            /\ DeliveryState(c) = "Dispatched" => RecordCount(c) = 0
            /\ DeliveryState(c) = "Acknowledged" => RecordCount(c) = 0
            /\ DeliveryState(c) = "Failed" => RecordCount(c) <= 1)

\* C13 witness: a delivery is Failed, its goroutine has ended and its record
\* is in the sink.
C13_FailedAndEnded ==
    \E c \in Calls :
        /\ DeliveryState(c) = "Failed" /\ taskPc[c] = "done"
        /\ lastOutcome[c] = "Permanent" /\ RecordCount(c) = 1

C15_NoRecorderOnlyLogs ==
    /\ [](\A c \in Calls :
            (~hasRecorder[c] /\ taskPc[c] \in {"check", "done"}
                             /\ ~IsACK(result[c])) =>
                /\ RecordCount(c) = 0
                /\ sink = EmptyBag
                /\ retval[c] = Nil
                /\ taskPc[c] = "check" => warnings[c] = 0
                /\ taskPc[c] = "done" => warnings[c] = 2)
    /\ [][\A c \in Calls :
            (~hasRecorder[c] /\ taskPc[c] \in {"check", "done"}) =>
                /\ taskPc'[c] \in {taskPc[c], "done"}
                /\ attempts'[c] = attempts[c]]_vars

\* C15 witness: the delivery failed without a recorder and the goroutine has
\* ended.
C15_FailedWithoutRecorder ==
    \E c \in Calls :
        /\ ~hasRecorder[c] /\ taskPc[c] = "done"
        /\ ~IsACK(result[c]) /\ warnings[c] = 2

\* C16: a call that returns nil has started one goroutine, which hands Send
\* the one event built from the object of the call; the event is built once
\* and never changes, and Send is entered once.
C16_OneEnvelopeOneTask ==
    /\ [](\A c \in Calls :
            /\ (callerPc[c] = "returned" /\ retval[c] = Nil) =>
                    /\ taskPc[c] \in {"send", "check", "done"}
                    /\ event[c].set
                    /\ sent[c] = event[c]
                    /\ event[c].subject = object[c].name
                    /\ event[c].data = getEventData(object[c]).data
                    /\ event[c].type = getEventType(object[c]).Type
            /\ taskPc[c] \in {"none", "handoff"} => ~sent[c].set)
    /\ [][\A c \in Calls :
            /\ event[c].set => event'[c] = event[c]
            /\ sent[c].set => sent'[c] = sent[c]
            /\ (taskPc'[c] = "send" /\ taskPc[c] # "send") => taskPc[c] = "handoff"
            /\ (taskPc'[c] = "handoff" /\ taskPc[c] # "handoff") =>
                    taskPc[c] = "none" /\ callerPc[c] = "idle"
            /\ callerPc[c] # "idle" => object'[c] = object[c]]_vars

\* C16 witness: the call returned nil and its goroutine has handed the event
\* to Send, which was acknowledged.
C16_ReturnedAndSent ==
    \E c \in Calls :
        /\ callerPc[c] = "returned" /\ retval[c] = Nil
        /\ sent[c].set /\ taskPc[c] = "done" /\ IsACK(result[c])

\* C18: the synchronous checks run in the order type guard, client lookup,
\* serialization, classification, and the call returns the error of the
\* first check that fails: an object without a condition interface gives
\* UnsupportedObjectType even without a client, and without a client every
\* other object gives NoTransportConfigured, whatever its condition.
C18_FirstFailingCheckWins ==
    \A c \in Calls :
        callerPc[c] # "idle" =>
            LET o == object[c]
                coded == o.kind \in SupportedKinds
            IN  CASE o.kind = "ConfigMap" ->
                        retval[c] = ErrUnsupportedObjectType
                  [] o.kind # "ConfigMap" /\ ~hasClient[c] ->
                        /\ retval[c] = ErrNoTransportConfigured
                        /\ data[c] = NoData /\ etype[c] = NoEventType
                  [] OTHER ->
                        /\ (coded /\ o.marshalFails) => retval[c] = ErrSerialization
                        /\ (~(coded /\ o.marshalFails) /\ o.cond = NoCondition) =>
                                retval[c] = ErrMissingCondition
                        /\ (~(coded /\ o.marshalFails) /\ o.cond = "") =>
                                retval[c] = ErrUnknownConditionState
                        /\ (coded /\ ~o.marshalFails /\ o.cond = CondUnknown
                                  /\ o.reason \notin {"Started", "Running"}) =>
                                retval[c] = ErrUnrecognizedReason

\* C18 witness: a call without a client returned NoTransportConfigured for a
\* TaskRun that has no condition and cannot be serialized.
C18_NoClientBeforeClassification ==
    \E c \in Calls :
        /\ callerPc[c] = "returned" /\ ~hasClient[c]
        /\ object[c].kind = "TaskRun" /\ object[c].cond = NoCondition
        /\ object[c].marshalFails
        /\ retval[c] = ErrNoTransportConfigured

\* C20: for an object with a condition whose kind is outside the type
\* switches (a Run), with a true, false or unknown condition: getEventData
\* returns an empty bundle, getEventType returns the status with an empty
\* type (for unknown, whatever the reason), and the call starts the goroutine
\* with an event instead of returning an error.
C20_UnsupportedKindStillDispatched ==
    \A c \in Calls :
        (callerPc[c] # "idle" /\ hasClient[c] /\ object[c].kind = "Run"
                              /\ object[c].cond \in {CondTrue, CondFalse, CondUnknown}) =>
            /\ data[c] = [err |-> "nil", data |-> {}]
            /\ etype[c].err = Nil
            /\ etype[c].Type = ""
            /\ etype[c].Status = (CASE object[c].cond = CondTrue -> "Finished"
                                    [] object[c].cond = CondFalse -> "Error"
                                    [] OTHER -> "Running")
            /\ event[c].set
            /\ event[c].type = "" /\ event[c].data = {}
            /\ taskPc[c] # "none"
            /\ retval[c] \in {"none", Nil}
            /\ taskPc[c] \in {"send", "check", "done"} => sent[c] = event[c]

\* C20 witness: the event of a Run with an unknown condition and an
\* unrecognized reason was handed to Send.
C20_RunDispatched ==
    \E c \in Calls :
        /\ object[c].kind = "Run" /\ object[c].cond = CondUnknown
        /\ object[c].reason = "Succeeded"
        /\ taskPc[c] = "send" /\ attempts[c] = 1

\* What belongs to call c alone
LocalState(c) ==
    <<object[c], hasClient[c], hasRecorder[c], cancelled[c], callerPc[c], retval[c],
      data[c], etype[c], event[c], taskPc[c], attempts[c], lastOutcome[c], sent[c],
      result[c], warnings[c], RecordsOf(c), RecordCount(c)>>

\* C17: concurrent calls are independent: every goroutine sends the event
\* built from the object of its own call, a caller is released only by the
\* handoff of its own goroutine, the sink holds a record for a call exactly
\* when that call's delivery failed and its goroutine recorded it, with that
\* call's object and that delivery's error, and no step changes what belongs
\* to two calls.
C17_ConcurrentCallsIndependent ==
    /\ [](\A c \in Calls :
            /\ sent[c].set =>
                    /\ sent[c] = event[c]
                    /\ sent[c].subject = object[c].name
                    /\ sent[c].data = getEventData(object[c]).data
                    /\ sent[c].type = getEventType(object[c]).Type
            /\ callerPc[c] \in {"received", "returned"} =>
                    taskPc[c] \in {"send", "check", "done"}
            /\ callerPc[c] = "waiting" => taskPc[c] = "handoff"
            /\ RecordCount(c) =
                    (IF taskPc[c] = "done" /\ ~result[c].ack /\ hasRecorder[c]
                     THEN 1 ELSE 0)
            /\ \A r \in RecordsOf(c) :
                    r.message = [attempt |-> result[c].attempt,
                                 error |-> result[c].error])
    /\ [][\A c, d \in Calls :
            c # d => ~(LocalState(c)' # LocalState(c) /\ LocalState(d)' # LocalState(d))]_vars

\* C17 witness: two calls with different objects were in flight together;
\* one delivery failed and was recorded, the other was acknowledged after it.
C17_OneFailedOneAcknowledged ==
    \E c, d \in Calls :
        /\ c # d /\ object[c] # object[d]
        /\ taskPc[c] = "done" /\ ~result[c].ack /\ RecordCount(c) = 1
        /\ taskPc[d] = "done" /\ result[d].ack /\ RecordCount(d) = 0
        /\ attempts[c] = 2 /\ attempts[d] = 3

\* C19: under a fair scheduler every call that started the goroutine
\* returns, the goroutine does not stay in wasIn <- nil, and once Send has
\* returned the goroutine ends.
C19_HandoffNeverBlocks ==
    \A c \in Calls :
        /\ (taskPc[c] = "handoff") ~> (callerPc[c] = "returned")
        /\ (taskPc[c] = "handoff") ~> (taskPc[c] # "handoff")
        /\ (taskPc[c] = "check") ~> (taskPc[c] = "done")

\* C19 witness: the call has returned and its goroutine has ended after a
\* failed delivery.
C19_ReturnedAndEnded ==
    \E c \in Calls :
        /\ callerPc[c] = "returned" /\ taskPc[c] = "done"
        /\ lastOutcome[c] = "Retry" /\ cancelled[c]

====
